---- MODULE Spec2Model ----
(***************************************************************************)
(* Model of cadencefmt's prettyCode (src/main.go): the loop that merges    *)
(* the tokens of the existing code (which carry the comments) with the     *)
(* tokens of the pretty-printed code.                                      *)
(*                                                                         *)
(* A text is a sequence of one-character strings; offsets and columns are  *)
(* 0-based and lines 1-based, as in the lexer's positions.                 *)
(***************************************************************************)
EXTENDS Integers, Sequences, FiniteSets, TLC

\* ------------------------------------------------------------------ bounds

\* Longest original, in lines drawn from the line templates below.
MaxLines == 3

\* Longest original of the fair specification, which checks termination.
LiveLines == 2

\* ---------------------------------------------------- strings (Go's package)

NL == "\n"
SP == " "
TAB == "\t"

Max(a, b) == IF a > b THEN a ELSE b

\* strings.Repeat(c, n) for a one-character string c
Repeat(c, n) == [i \in 1..n |-> c]

\* s[lo:hi] of Go, lo and hi 0-based offsets
Slice(s, lo, hi) == SubSeq(s, lo + 1, hi)

\* strings.HasPrefix / strings.HasSuffix
HasPrefix(s, p) == Len(s) >= Len(p) /\ SubSeq(s, 1, Len(p)) = p
HasSuffix(s, p) == Len(s) >= Len(p) /\ SubSeq(s, Len(s) - Len(p) + 1, Len(s)) = p

\* strings.LastIndex(s, c) for a one-character c: 0-based, -1 when absent
LastIndex(s, c) ==
    LET hits == {i \in 1..Len(s) : s[i] = c}
    IN  IF hits = {} THEN -1 ELSE (CHOOSE i \in hits : \A j \in hits : j <= i) - 1

\* strings.TrimRight(s, cutset)
TrimRight(s, cutset) ==
    LET keep == {i \in 1..Len(s) : s[i] \notin cutset}
    IN  IF keep = {} THEN <<>>
        ELSE SubSeq(s, 1, CHOOSE i \in keep : \A j \in keep : j <= i)

\* strings.Trim(s, cutset)
Trim(s, cutset) ==
    LET keep == {i \in 1..Len(s) : s[i] \notin cutset}
    IN  IF keep = {} THEN <<>>
        ELSE SubSeq(s, CHOOSE i \in keep : \A j \in keep : i <= j,
                       CHOOSE i \in keep : \A j \in keep : j <= i)

\* strings.Replace(s, c, "", -1) for a one-character c
RemoveAll(s, c) == SelectSeq(s, LAMBDA ch : ch # c)

\* strings.Split(s, "\n"): the lines of s, the line breaks dropped
RECURSIVE SplitFrom(_, _)
SplitFrom(s, from) ==
    LET brk == {i \in from..Len(s) : s[i] = NL}
    IN  IF brk = {} THEN << SubSeq(s, from, Len(s)) >>
        ELSE LET i == CHOOSE k \in brk : \A j \in brk : k <= j
             IN  << SubSeq(s, from, i - 1) >> \o SplitFrom(s, i + 1)

Split(s) == SplitFrom(s, 1)

\* strings.SplitAfter(s, "\n"): the lines of s, each keeping its line break
RECURSIVE SplitAfterFrom(_, _)
SplitAfterFrom(s, from) ==
    LET brk == {i \in from..Len(s) : s[i] = NL}
    IN  IF brk = {} THEN << SubSeq(s, from, Len(s)) >>
        ELSE LET i == CHOOSE k \in brk : \A j \in brk : k <= j
             IN  << SubSeq(s, from, i) >> \o SplitAfterFrom(s, i + 1)

RECURSIVE JoinWithPrefix(_, _)
JoinWithPrefix(lines, prefix) ==
    IF lines = <<>> THEN <<>>
    ELSE prefix \o Head(lines) \o JoinWithPrefix(Tail(lines), prefix)

\* indent.String(indent, s) of goyang: every line of s prefixed by indent
IndentString(indent, s) ==
    IF indent = <<>> \/ s = <<>> THEN s
    ELSE LET all == SplitAfterFrom(s, 1)
             lines == IF all[Len(all)] = <<>> THEN SubSeq(all, 1, Len(all) - 1) ELSE all
         IN  JoinWithPrefix(lines, indent)

\* does sub occur in s
Contains(s, sub) ==
    \E i \in 0..(Len(s) - Len(sub)) : SubSeq(s, i + 1, i + Len(sub)) = sub

\* ------------------------------------------------------- lexer (lexer.Lex)

SpaceChars == {SP, NL, TAB}
PunctChars == {"(", ")", "[", "]", "{", "}", "=", ":", "/", "*"}

PunctType(c) ==
    CASE c = "(" -> "TokenParenOpen"
      [] c = ")" -> "TokenParenClose"
      [] c = "[" -> "TokenBracketOpen"
      [] c = "]" -> "TokenBracketClose"
      [] c = "{" -> "TokenBraceOpen"
      [] c = "}" -> "TokenBraceClose"
      [] c = "=" -> "TokenEqual"
      [] c = ":" -> "TokenColon"
      [] c = "/" -> "TokenSlash"
      [] c = "*" -> "TokenStar"

\* ast.Position of the 0-based offset off in text t: Line from 1, Column from 0
LineAt(t, off) == 1 + Cardinality({i \in 1..off : i <= Len(t) /\ t[i] = NL})
ColumnAt(t, off) == off - (LastIndex(SubSeq(t, 1, off), NL) + 1)

\* lexer.Token: its Type and its Range (StartPos and EndPos, the end inclusive)
Token(type, t, start, end) ==
    [Type |-> type,
     StartOffset |-> start, EndOffset |-> end,
     StartLine |-> LineAt(t, start), StartColumn |-> ColumnAt(t, start),
     EndLine |-> LineAt(t, Max(start, end))]

\* lexer.Token{Type: lexer.TokenSpace}: the zero Range
ZeroToken(type) ==
    [Type |-> type, StartOffset |-> 0, EndOffset |-> 0,
     StartLine |-> 0, StartColumn |-> 0, EndLine |-> 0]

\* the offset of the last character of the run of characters in (or, with
\* inside FALSE, not in) set that starts at offset i
RunEnd(t, i, set, inside) ==
    LET stop == {k \in (i + 1)..Len(t) : (t[k] \in set) # inside}
    IN  IF stop = {} THEN Len(t) - 1
        ELSE (CHOOSE k \in stop : \A j \in stop : k <= j) - 2

\* the offset of the "*/" that closes the block comment opened before offset i
BlockEnd(t, i) ==
    LET ends == {k \in (i + 1)..(Len(t) - 1) : t[k] = "*" /\ t[k + 1] = "/"}
    IN  IF ends = {} THEN Len(t)
        ELSE (CHOOSE k \in ends : \A j \in ends : k <= j) - 1

RECURSIVE LexFrom(_, _)
LexFrom(t, i) ==
    IF i >= Len(t) THEN << Token("TokenEOF", t, Len(t), Len(t) - 1) >>
    ELSE
    LET c == t[i + 1]
        c2 == IF i + 1 < Len(t) THEN t[i + 2] ELSE ""
    IN  IF c \in SpaceChars THEN
            LET e == RunEnd(t, i, SpaceChars, TRUE)
            IN  << Token("TokenSpace", t, i, e) >> \o LexFrom(t, e + 1)
        ELSE IF c = "/" /\ c2 = "/" THEN
            LET e == RunEnd(t, i, {NL}, FALSE)
            IN  << Token("TokenLineComment", t, i, e) >> \o LexFrom(t, e + 1)
        ELSE IF c = "/" /\ c2 = "*" THEN
            LET e == BlockEnd(t, i + 2)
            IN  << Token("TokenBlockCommentStart", t, i, i + 1),
                   Token("TokenBlockCommentContent", t, i + 2, e - 1) >>
                \o (IF e >= Len(t) THEN <<>>
                    ELSE << Token("TokenBlockCommentEnd", t, e, e + 1) >>)
                \o LexFrom(t, e + 2)
        ELSE IF c \in PunctChars THEN
            << Token(PunctType(c), t, i, i) >> \o LexFrom(t, i + 1)
        ELSE
            LET e == RunEnd(t, i, SpaceChars \cup PunctChars, FALSE)
            IN  << Token("TokenIdentifier", t, i, e) >> \o LexFrom(t, e + 1)

\* lexer.Lex(text): the tokens of text, a TokenEOF last
Lex(t) == LexFrom(t, 0)

\* TokenStream.Next() with the cursor at position cursor (tokens read so
\* far); past the last token the stream keeps answering TokenEOF
NextToken(tokens, cursor) ==
    IF cursor < Len(tokens) THEN tokens[cursor + 1] ELSE tokens[Len(tokens)]

\* func extractTokenText(text, token)
extractTokenText(text, token) == Slice(text, token.StartOffset, token.EndOffset + 1)

\* ------------------------------------------ inputs: existing code, renderer

\* The existing code is up to MaxLines lines, each drawn from these
\* templates; n numbers the comment of the n-th line so that comments differ.
Digit(n) == CASE n = 1 -> "1" [] n = 2 -> "2" [] n = 3 -> "3" [] n = 4 -> "4"
              [] OTHER -> "9"

TemplateIds == 1..10

OrigLine(id, n) ==
    CASE id = 1 -> <<>>
      [] id = 2 -> <<"x">>
      [] id = 3 -> <<"/", "/", Digit(n)>>
      [] id = 4 -> <<"x", " ", "/", "/", Digit(n)>>
      [] id = 5 -> <<"x", " ", "{">>
      [] id = 6 -> <<"}">>
      [] id = 7 -> <<"{", "}">>
      [] id = 8 -> <<"(", "x", ")">>
      [] id = 9 -> <<"/", "*", Digit(n), "*", "/", " ", "x">>
      [] id = 10 -> <<"/", "*", Digit(n), NL, Digit(n), "*", "/">>

RECURSIVE JoinLines(_, _)
JoinLines(ids, n) ==
    IF n > Len(ids) THEN <<>>
    ELSE OrigLine(ids[n], n) \o (IF n < Len(ids) THEN <<NL>> ELSE <<>>)
         \o JoinLines(ids, n + 1)

Originals ==
    UNION {[1..len -> TemplateIds] : len \in 0..Max(MaxLines, LiveLines)}

IsCommentType(type) ==
    type \in {"TokenLineComment", "TokenBlockCommentStart",
              "TokenBlockCommentContent", "TokenBlockCommentEnd"}

\* the tokens the parser keeps: neither whitespace nor comment nor TokenEOF
IsCodeType(type) ==
    ~IsCommentType(type) /\ type \notin {"TokenSpace", "TokenEOF"}

CodeTokens(tokens) == SelectSeq(tokens, LAMBDA tk : IsCodeType(tk.Type))

KindsOf(tokens) == [i \in 1..Len(tokens) |-> tokens[i].Type]

\* the indent unit pretty() hands to prettier.Prettier: four spaces
IndentUnit == 4

\* The renderer (parser.ParseProgram, prettier.Prettier) is outside the
\* repository.  Its output is modelled as the code tokens of the text laid
\* out anew: in layout "keep" a line break where the original had one, with
\* IndentUnit spaces per open brace; in layout "join" all on one line.
RECURSIVE RenderFrom(_, _, _, _, _)
RenderFrom(text, toks, k, depth, layout) ==
    IF k > Len(toks) THEN <<>>
    ELSE
    LET cur == toks[k].Type
        prev == IF k = 1 THEN "" ELSE toks[k - 1].Type
        d == IF cur = "TokenBraceClose" THEN Max(depth - 1, 0) ELSE depth
        tight == \/ prev \in {"TokenParenOpen", "TokenBracketOpen"}
                 \/ cur \in {"TokenParenClose", "TokenBracketClose"}
                 \/ (prev = "TokenIdentifier" /\ cur = "TokenParenOpen")
                 \/ (prev = "TokenBraceOpen" /\ cur = "TokenBraceClose")
        sep == IF k = 1 THEN <<>>
               ELSE IF layout = "keep" /\ toks[k].StartLine # toks[k - 1].StartLine
               THEN <<NL>> \o Repeat(SP, IndentUnit * d)
               ELSE IF tight THEN <<>> ELSE <<SP>>
    IN  sep \o extractTokenText(text, toks[k])
        \o RenderFrom(text, toks, k + 1,
                      IF cur = "TokenBraceOpen" THEN d + 1 ELSE d, layout)

Render(text, layout) == RenderFrom(text, CodeTokens(Lex(text)), 1, 0, layout)

\* what parser.Error's Error() may read: with the prefix prettyCode tests
\* for, and as "Parsing failed:" followed by a line break
DiagnosticSpace == <<"P","a","r","s","i","n","g"," ","f","a","i","l","e","d"," ","e">>
DiagnosticColon == <<"P","a","r","s","i","n","g"," ","f","a","i","l","e","d",":",NL,"e">>

ParsingFailedPrefix == <<"P","a","r","s","i","n","g"," ","f","a","i","l","e","d"," ">>

\* the ways an input pair is drawn from an original
Variants == {"keep", "join", "canon", "extraFirst", "extraLast",
             "failSpace", "failColon"}

\* the text of the existing code for an original under a variant
ExistingOf(orig, variant) ==
    IF variant = "canon" THEN Render(JoinLines(orig, 1), "keep")
    ELSE JoinLines(orig, 1)

\* pretty(existingCode, maxLineLength): the rendering, or the diagnostic
PrettyOf(code, variant) ==
    CASE variant = "keep" -> Render(code, "keep")
      [] variant = "join" -> Render(code, "join")
      [] variant = "canon" -> Render(code, "keep")
      [] variant = "extraFirst" ->
            LET r == Render(code, "keep")
            IN  IF r = <<>> THEN <<":">> ELSE <<":", SP>> \o r
      [] variant = "extraLast" ->
            LET r == Render(code, "keep")
            IN  IF r = <<>> THEN <<":">> ELSE r \o <<SP, ":">>
      [] variant = "failSpace" -> DiagnosticSpace
      [] variant = "failColon" -> DiagnosticColon

\* ------------------------------------------------------- state of prettyCode

VARIABLES
    existingCode,   \* the argument of prettyCode
    existingCodeLines, \* strings.Split(existingCode, "\n")
    parseFailed,    \* pretty(): err != nil
    prettyCode,     \* what pretty() returned
    oldTokens,      \* lexer.Lex(existingCode)
    newTokens,      \* lexer.Lex(prettyCode)
    oldCursor,      \* tokens read from oldTokens
    newCursor,      \* tokens read from newTokens
    oldToken,
    newToken,
    result,
    spaces,
    comment,
    pc              \* "call", "pretty", "loop", "resync", "flush", "done"

vars == <<existingCode, existingCodeLines, parseFailed, prettyCode, oldTokens, newTokens, oldCursor,
          newCursor, oldToken, newToken, result, spaces, comment, pc>>

inputs == <<existingCode, existingCodeLines, parseFailed, prettyCode, oldTokens,
            newTokens>>

ignoredTokenTypes ==
    {"TokenParenClose", "TokenParenOpen", "TokenBracketOpen", "TokenBracketClose"}

\* before the call: nothing lexed, nothing written
Init ==
    /\ existingCode = <<>>
    /\ existingCodeLines = <<>>
    /\ parseFailed = FALSE
    /\ prettyCode = <<>>
    /\ oldTokens = <<>>
    /\ newTokens = <<>>
    /\ oldCursor = 0
    /\ newCursor = 0
    /\ oldToken = ZeroToken("TokenSpace")
    /\ newToken = ZeroToken("TokenSpace")
    /\ result = <<>>
    /\ spaces = <<>>
    /\ comment = <<>>
    /\ pc = "call"

\* prettyCode(existingCode, maxLineLength) is called on an original of at
\* most maxLines lines: the lines and the tokens of the existing code, what
\* pretty() returns and its tokens.  lexer.Lex is a pure function of the
\* text, so the tokens of prettyCode are drawn up here; only the merge loop
\* reads them.
CallWith(maxLines) ==
    /\ pc = "call"
    /\ \E orig \in Originals, variant \in Variants :
        /\ Len(orig) <= maxLines
        /\ existingCode' = ExistingOf(orig, variant)
        /\ existingCodeLines' = Split(ExistingOf(orig, variant))
        /\ parseFailed' = (variant \in {"failSpace", "failColon"})
        /\ prettyCode' = PrettyOf(ExistingOf(orig, variant), variant)
        /\ oldTokens' = Lex(ExistingOf(orig, variant))
        /\ newTokens' = Lex(PrettyOf(ExistingOf(orig, variant), variant))
    /\ pc' = "pretty"
    /\ UNCHANGED <<oldCursor, newCursor, oldToken, newToken, result, spaces, comment>>

Call == CallWith(MaxLines)

\* the same call on the shorter originals the fair specification runs
CallShort == CallWith(LiveLines)

\* strings.HasPrefix(prettyCode, "Parsing failed ")
IsDiagnostic(text) == HasPrefix(text, ParsingFailedPrefix)

\* if strings.HasPrefix(prettyCode, "Parsing failed ") { return prettyCode }
ReturnDiagnostic ==
    /\ pc = "pretty"
    /\ IsDiagnostic(prettyCode)
    /\ result' = prettyCode
    /\ pc' = "done"
    /\ UNCHANGED <<inputs, oldCursor, newCursor, oldToken, newToken,
                   spaces, comment>>

\* prettyCode is no diagnostic: the loop starts on the two token streams
\* with oldToken and newToken of type TokenSpace and the builders empty
StartMerge ==
    /\ pc = "pretty"
    /\ ~IsDiagnostic(prettyCode)
    /\ oldToken' = ZeroToken("TokenSpace")
    /\ newToken' = ZeroToken("TokenSpace")
    /\ result' = <<>>
    /\ spaces' = <<>>
    /\ comment' = <<>>
    /\ pc' = "loop"
    /\ UNCHANGED <<inputs, oldCursor, newCursor>>

\* if !newToken.Is(lexer.TokenEOF) { newToken = newTokens.Next() }
FetchedCursor(tok, cursor) == IF tok.Type # "TokenEOF" THEN cursor + 1 ELSE cursor

Fetched == IF newToken.Type # "TokenEOF" THEN NextToken(newTokens, newCursor)
           ELSE newToken

\* if newToken.Is(lexer.TokenSpace) { spaces.WriteString(...); continue }
ScanSpace ==
    /\ pc = "loop"
    /\ Fetched.Type = "TokenSpace"
    /\ newToken' = Fetched
    /\ newCursor' = FetchedCursor(newToken, newCursor)
    /\ spaces' = spaces \o extractTokenText(prettyCode, Fetched)
    /\ UNCHANGED <<inputs, oldCursor, oldToken, result, comment, pc>>

\* cursor := newTokens.Cursor(); newTokens.Next().Type == lexer.TokenBraceClose
BraceCloseFollows(tokens, cursor) ==
    NextToken(tokens, cursor).Type = "TokenBraceClose"

\* CollapseWrite writing the open brace alone
CollapseWriteOpenOnly(res, sp) == res \o <<"{">>

\* result.WriteString("{}"): the lookahead is not reverted
CollapseWrite(res, sp) == res \o <<"{", "}">>

CollapseBraces ==
    /\ pc = "loop"
    /\ Fetched.Type = "TokenBraceOpen"
    /\ BraceCloseFollows(newTokens, FetchedCursor(newToken, newCursor))
    /\ newToken' = Fetched
    /\ newCursor' = FetchedCursor(newToken, newCursor) + 1
    /\ result' = CollapseWrite(result, spaces)
    /\ UNCHANGED <<inputs, oldCursor, oldToken, spaces, comment, pc>>

\* result.WriteString("{"); newTokens.Revert(cursor)
OpenBraceWrite(res, sp) == res \o <<"{">>

\* the spacing buffer after the open brace is written: not reset
OpenBraceSpaces(sp) == sp

OpenBrace ==
    /\ pc = "loop"
    /\ Fetched.Type = "TokenBraceOpen"
    /\ ~BraceCloseFollows(newTokens, FetchedCursor(newToken, newCursor))
    /\ newToken' = Fetched
    /\ newCursor' = FetchedCursor(newToken, newCursor)
    /\ result' = OpenBraceWrite(result, spaces)
    /\ spaces' = OpenBraceSpaces(spaces)
    /\ UNCHANGED <<inputs, oldCursor, oldToken, comment, pc>>

\* BypassWrite without the pending spacing
BypassWriteNoSpaces(res, sp, text) == res \o text

\* result.WriteString(spaces.String()); result.WriteString(extractTokenText(...))
BypassWrite(res, sp, text) == res \o sp \o text

\* if slices.Contains(ignoredTokenTypes, newToken.Type) { ...; continue }
Bypass ==
    /\ pc = "loop"
    /\ Fetched.Type \in ignoredTokenTypes
    /\ newToken' = Fetched
    /\ newCursor' = FetchedCursor(newToken, newCursor)
    /\ result' = BypassWrite(result, spaces, extractTokenText(prettyCode, Fetched))
    /\ spaces' = <<>>
    /\ UNCHANGED <<inputs, oldCursor, oldToken, comment, pc>>

\* any other token: if !oldToken.Is(lexer.TokenEOF) { for { ... } }
Dispatch ==
    /\ pc = "loop"
    /\ Fetched.Type \notin ({"TokenSpace", "TokenBraceOpen"} \cup ignoredTokenTypes)
    /\ newToken' = Fetched
    /\ newCursor' = FetchedCursor(newToken, newCursor)
    /\ pc' = IF oldToken.Type # "TokenEOF" THEN "resync" ELSE "flush"
    /\ UNCHANGED <<inputs, oldCursor, oldToken, result, spaces, comment>>

\* ---------------------------------------------- the comments of the old code

\* oldLine: the trimmed text before the comment on its line
OldLine(tok) ==
    Trim(Slice(existingCodeLines[tok.StartLine], 0, tok.StartColumn), {SP, TAB})

\* isTrailing: code precedes the comment on its line
IsTrailing(tok) == Len(OldLine(tok)) > 0

IsBlankLine(line) == Len(Trim(line, {SP, TAB})) = 0

\* //check previous line empty: a line break goes before the comment
BlankBefore(tok, sp) ==
    /\ ~IsTrailing(tok)
    /\ tok.StartLine > 1
    /\ IsBlankLine(existingCodeLines[tok.StartLine - 1])
    /\ Len(OldLine(tok)) = 0
    /\ ~HasSuffix(RemoveAll(sp, SP), <<NL, NL>>)

\* //check next line empty: a line break goes after the comment
BlankAfter(tok) ==
    /\ ~IsTrailing(tok)
    /\ tok.StartLine < Len(existingCodeLines)
    /\ IsBlankLine(existingCodeLines[tok.StartLine + 1])
    /\ Len(OldLine(tok)) = 0

\* LineCommentAdded putting the comment in front of the buffered ones
LineCommentPrepended(buf, tok, sp) ==
    (IF BlankBefore(tok, sp) THEN <<NL>> ELSE <<>>)
        \o extractTokenText(existingCode, tok)
        \o (IF BlankAfter(tok) THEN <<NL>> ELSE <<>>)
        \o buf

\* case lexer.TokenLineComment: what the comment buffer holds after the
\* comment is added (before the trailing test)
LineCommentAdded(buf, tok, sp) ==
    buf \o (IF BlankBefore(tok, sp) THEN <<NL>> ELSE <<>>)
        \o extractTokenText(existingCode, tok)
        \o (IF BlankAfter(tok) THEN <<NL>> ELSE <<>>)

\* result.WriteString(" "); result.WriteString(comment.String())
TrailingWrite(res, buf) == res \o <<SP>> \o buf

\* BlockCommentAdded starting the buffer anew
BlockCommentOverwrites(buf, tok) ==
    <<"/", "*">> \o extractTokenText(existingCode, tok) \o <<"*", "/">>
        \o (IF tok.StartLine < tok.EndLine THEN <<NL, NL>> ELSE <<>>)

\* case lexer.TokenBlockCommentContent
BlockCommentAdded(buf, tok) ==
    buf \o <<"/", "*">> \o extractTokenText(existingCode, tok) \o <<"*", "/">>
        \o (IF tok.StartLine < tok.EndLine THEN <<NL, NL>> ELSE <<>>)

\* ResyncStops without the test on the new token's type
ResyncStopsAtEnd(old, new) == old.Type = "TokenEOF"

\* ResyncStops stopping at every comment as well
ResyncStopsAtComment(old, new) ==
    \/ old.Type = new.Type
    \/ old.Type = "TokenEOF"
    \/ old.Type \in {"TokenLineComment", "TokenBlockCommentContent"}

\* ResyncStops without the end-of-input test
ResyncStopsOnMatchOnly(old, new) == old.Type = new.Type

\* if oldToken.Type == newToken.Type || oldToken.Is(lexer.TokenEOF) { break }
ResyncStops(old, new) == old.Type = new.Type \/ old.Type = "TokenEOF"

\* one turn of the inner loop: oldToken = oldTokens.Next() and its comment
ResyncStep ==
    /\ pc = "resync"
    /\ LET tok == NextToken(oldTokens, oldCursor)
       IN  /\ oldToken' = tok
           /\ oldCursor' = oldCursor + 1
           /\ IF tok.Type = "TokenLineComment" THEN
                 LET buf == LineCommentAdded(comment, tok, spaces)
                 IN  IF IsTrailing(tok)
                     THEN /\ result' = TrailingWrite(result, buf)
                          /\ comment' = <<>>
                     ELSE /\ result' = result
                          /\ comment' = buf \o <<NL>>
              ELSE IF tok.Type = "TokenBlockCommentContent" THEN
                 /\ comment' = BlockCommentAdded(comment, tok)
                 /\ result' = result
              ELSE UNCHANGED <<result, comment>>
           /\ pc' = IF ResyncStops(tok, newToken) THEN "flush" ELSE "resync"
    /\ UNCHANGED <<inputs, newCursor, newToken, spaces>>

\* if oldToken.Is(lexer.TokenEOF) && newToken.Is(lexer.TokenEOF)
BothExhausted == oldToken.Type = "TokenEOF" /\ newToken.Type = "TokenEOF"

\* //add remaining comments and finish
Finish ==
    /\ pc = "flush"
    /\ BothExhausted
    /\ result' = result \o comment
    /\ pc' = "done"
    /\ UNCHANGED <<inputs, oldCursor, newCursor, oldToken, newToken,
                   spaces, comment>>

\* existingIndent := len(spacesString) - (strings.LastIndex(spacesString, "\n") + 1)
ExistingIndent(sp) == Len(sp) - (LastIndex(sp, NL) + 1)

\* padding := strings.Repeat(" ", newToken.StartPosition().Column)
Padding(tok) == Repeat(SP, tok.StartColumn)

\* BeforeToken leaving the buffered comments out
BeforeTokenNoComment(sp, buf, tok) ==
    TrimRight(sp, {SP}) \o Repeat(SP, ExistingIndent(sp))

\* the text the emit step writes before the new token: the spacing without
\* its indent, then the comments padded to the token or else the indent
BeforeToken(sp, buf, tok) ==
    TrimRight(sp, {SP})
    \o (IF Len(buf) > 0
        THEN IndentString(Padding(tok), buf) \o Padding(tok)
        ELSE Repeat(SP, ExistingIndent(sp)))

\* //add prettified code
Emit ==
    /\ pc = "flush"
    /\ ~BothExhausted
    /\ result' = result \o BeforeToken(spaces, comment, newToken)
                        \o extractTokenText(prettyCode, newToken)
    /\ spaces' = <<>>
    /\ comment' = <<>>
    /\ pc' = "loop"
    /\ UNCHANGED <<inputs, oldCursor, newCursor, oldToken, newToken>>

\* the steps of a call that is under way
Step ==
    \/ ReturnDiagnostic
    \/ StartMerge
    \/ ScanSpace
    \/ CollapseBraces
    \/ OpenBrace
    \/ Bypass
    \/ Dispatch
    \/ ResyncStep
    \/ Finish
    \/ Emit

Next ==
    \/ Call
    \/ Step

Spec == Init /\ [][Next]_vars

NextShort ==
    \/ CallShort
    \/ Step

\* prettyCode is sequential code: once called it runs until it returns
FairSpec == Init /\ [][NextShort]_vars /\ WF_vars(Step)

TypeOK ==
    /\ pc \in {"call", "pretty", "loop", "resync", "flush", "done"}
    /\ oldCursor \in 0..Len(oldTokens)
    /\ newCursor \in 0..Len(newTokens)

\* ------------------------------------------------------------------ claims

Done == pc = "done"

\* the merge loop ran on a rendering (the parser did not fail)
Rendered == ~parseFailed /\ ~IsDiagnostic(prettyCode)

IsCommentToken(tok) == tok.Type \in {"TokenLineComment", "TokenBlockCommentContent"}

HasComments(tokens) == \E i \in 1..Len(tokens) : IsCommentToken(tokens[i])

\* the comment as it stands in the existing code, delimiters included
CommentText(tok) ==
    IF tok.Type = "TokenLineComment" THEN extractTokenText(existingCode, tok)
    ELSE <<"/", "*">> \o extractTokenText(existingCode, tok) \o <<"*", "/">>

\* no desynchronisation: the rendering has the code tokens of the original
Compatible ==
    /\ Rendered
    /\ KindsOf(CodeTokens(newTokens)) = KindsOf(CodeTokens(oldTokens))

\* C1: with no comment in the original, the merge returns the rendering
\* character for character, open braces preceded by whitespace included.
C1_NoCommentPassthrough ==
    (Done /\ Compatible /\ ~HasComments(oldTokens)) => result = prettyCode

\* C2: without desynchronisation every comment of the original, line
\* comments and block comments with their delimiters, stands verbatim in the
\* output.
C2_CommentConservation ==
    (Done /\ Compatible) =>
        \A i \in 1..Len(oldTokens) :
            IsCommentToken(oldTokens[i]) => Contains(result, CommentText(oldTokens[i]))

\* the index in oldTokens of the last token before index i that is not
\* whitespace, 0 when there is none
PrevNonSpace(i) ==
    LET before == {j \in 1..(i - 1) : oldTokens[j].Type # "TokenSpace"}
    IN  IF before = {} THEN 0 ELSE CHOOSE j \in before : \A k \in before : k <= j

\* a line comment that code precedes on its line of the original
TrailsCode(i) ==
    /\ oldTokens[i].Type = "TokenLineComment"
    /\ PrevNonSpace(i) > 0
    /\ IsCodeType(oldTokens[PrevNonSpace(i)].Type)
    /\ oldTokens[PrevNonSpace(i)].StartLine = oldTokens[i].StartLine

\* C3: a line comment that shares its line with preceding code stands in
\* the output directly after that code, one space between.
C3_TrailingPlacement ==
    (Done /\ Compatible) =>
        \A i \in 1..Len(oldTokens) :
            TrailsCode(i) =>
                Contains(result,
                         extractTokenText(existingCode, oldTokens[PrevNonSpace(i)])
                         \o <<SP>> \o CommentText(oldTokens[i]))

\* a line comment alone on its line whose next line in the original is blank
LeadsBlank(tok) ==
    /\ tok.Type = "TokenLineComment"
    /\ ~IsTrailing(tok)
    /\ tok.StartLine < Len(existingCodeLines)
    /\ IsBlankLine(existingCodeLines[tok.StartLine + 1])

\* the code tokens among the first n tokens
CodeCountUpTo(tokens, n) ==
    Cardinality({j \in 1..n : IsCodeType(tokens[j].Type)})

\* the text of the token of the rendering that stands for the code token
\* following index i of the old stream; empty when no code follows
FollowingRendered(i) ==
    LET code == CodeTokens(newTokens)
        n == CodeCountUpTo(oldTokens, i) + 1
    IN  IF n <= Len(code) THEN extractTokenText(prettyCode, code[n]) ELSE <<>>

\* C4: when the rendering has the code tokens of the original, a leading
\* line comment followed by a blank line in the original stands in the
\* output followed by a blank line and then by the rendered token that
\* follows it: the comment, a line break, a blank line, the token's indent,
\* the token.
C4_BlankLineSurvives ==
    (Done /\ Compatible) =>
        \A i \in 1..Len(oldTokens) :
            LeadsBlank(oldTokens[i]) =>
                \E k, m \in 0..Len(result) :
                    Contains(result, CommentText(oldTokens[i]) \o <<NL>>
                                     \o Repeat(SP, k) \o <<NL>>
                                     \o Repeat(SP, m) \o FollowingRendered(i))

\* an open brace of the rendering, a line break and indent, a close brace
SpreadEmptyBody(tokens, i) ==
    /\ i + 2 <= Len(tokens)
    /\ tokens[i].Type = "TokenBraceOpen"
    /\ tokens[i + 1].Type = "TokenSpace"
    /\ NL \in {prettyCode[k] : k \in (tokens[i + 1].StartOffset + 1)..(tokens[i + 1].EndOffset + 1)}
    /\ tokens[i + 2].Type = "TokenBraceClose"

\* C5: an empty body the rendering spreads over lines (open brace, line
\* break and indent, close brace) comes out as the two characters "{}".
C5_EmptyBlockCollapse ==
    (Done /\ Compatible) =>
        \A i \in 1..Len(newTokens) :
            SpreadEmptyBody(newTokens, i) =>
                /\ Contains(result, <<"{", "}">>)
                /\ ~Contains(result, <<"{">> \o extractTokenText(prettyCode, newTokens[i + 1])
                                     \o <<"}">>)

\* the loop is about to handle a parenthesis or bracket of the new stream
AtBypass == pc = "loop" /\ Fetched.Type \in ignoredTokenTypes

\* C6: a parenthesis or bracket of the new stream is written after the
\* pending spacing, verbatim; the spacing buffer is cleared; the old cursor,
\* the last old token and the comment buffer stay as they are.
C6_BypassFrame ==
    [][AtBypass =>
        /\ result' = result \o spaces \o extractTokenText(prettyCode, Fetched)
        /\ spaces' = <<>>
        /\ oldCursor' = oldCursor
        /\ oldToken' = oldToken
        /\ comment' = comment]_vars

\* a bracket is handled with spacing pending and a comment still ahead in
\* the old stream
C6_Witness ==
    /\ AtBypass
    /\ spaces # <<>>
    /\ \E j \in (oldCursor + 1)..Len(oldTokens) : IsCommentToken(oldTokens[j])

\* C7: the merge loop reaches its break: every iteration reads a token of
\* the new stream, every turn of the resync loop reads a token of the old
\* stream and none is read past its end-of-input.
C7_Termination ==
    /\ (pc = "pretty") ~> Done
    /\ [][pc = "loop" => newCursor' > newCursor /\ newCursor' <= Len(newTokens)]_vars
    /\ [][pc = "resync" => oldCursor' = oldCursor + 1 /\ oldCursor' <= Len(oldTokens)]_vars
    /\ [](pc = "loop" => newToken.Type # "TokenEOF")

\* the loop ended on a desynchronised pair with comments in the original
C7_Witness ==
    /\ Done
    /\ Rendered
    /\ ~Compatible
    /\ HasComments(oldTokens)
    /\ newCursor = Len(newTokens)
    /\ oldCursor = Len(oldTokens)

\* C8: when parsing the original fails, what prettyCode returns is exactly
\* the parser's diagnostic: no merge step has changed it.
C8_ParseFailurePassthrough ==
    (Done /\ parseFailed) => result = prettyCode

\* the comment at index i of the old stream stands first on its line
LeadingComment(i) ==
    \/ /\ oldTokens[i].Type = "TokenLineComment"
       /\ ~IsTrailing(oldTokens[i])
    \/ /\ oldTokens[i].Type = "TokenBlockCommentContent"
       /\ i > 1
       /\ Len(OldLine(oldTokens[i - 1])) = 0

\* C9: when the rendering has the code tokens of the original, a leading
\* comment is buffered for, and so emitted right before, the new token that
\* corresponds to the original token following the comment; it is not left
\* to a later token nor to the final flush.
C9_CommentAttachment ==
    (/\ pc = "resync"
     /\ Compatible
     /\ oldCursor >= 1
     /\ LeadingComment(oldCursor)
     /\ CodeCountUpTo(oldTokens, Len(oldTokens)) > CodeCountUpTo(oldTokens, oldCursor))
    =>
        /\ IsCodeType(newToken.Type)
        /\ CodeCountUpTo(newTokens, newCursor) = CodeCountUpTo(oldTokens, oldCursor) + 1

\* the loop is about to handle an open brace no close brace follows
AtOpenBrace ==
    /\ pc = "loop"
    /\ Fetched.Type = "TokenBraceOpen"
    /\ ~BraceCloseFollows(newTokens, FetchedCursor(newToken, newCursor))

\* C10: an open brace not followed by a close brace is written like a
\* bypass token: the pending spacing goes to the result before the brace and
\* the spacing buffer is cleared.
C10_OpenBraceSpacing ==
    [][AtOpenBrace =>
        /\ result' = result \o spaces \o <<"{">>
        /\ spaces' = <<>>]_vars

\* the code tokens read so far from the old and from the new stream
OldConsumed == CodeCountUpTo(oldTokens, oldCursor)
NewConsumed == CodeCountUpTo(newTokens, newCursor)

InMerge == pc \in {"loop", "resync", "flush", "done"}

\* C11: when the rendering has the code tokens of the original, in every
\* state of the merge loop the old stream has given up at most as many code
\* tokens as the new stream: the old cursor is never ahead of the new one.
C11_CursorOrder ==
    (InMerge /\ Compatible) => OldConsumed <= NewConsumed

\* the resync loop has caught up with the new stream past a comment, after
\* lagging behind it over bypassed tokens
C11_Witness ==
    /\ pc = "flush"
    /\ Compatible
    /\ HasComments(oldTokens)
    /\ OldConsumed = NewConsumed
    /\ NewConsumed >= 3

\* the kind of the new token does not occur in the old stream from cursor on
KindAbsentFrom(cursor) ==
    \A j \in (cursor + 1)..Len(oldTokens) : oldTokens[j].Type # newToken.Type

\* the resync loop has run the old stream to its end for a new token that is
\* not end-of-input
ExhaustedForToken ==
    /\ pc = "flush"
    /\ oldToken.Type = "TokenEOF"
    /\ newToken.Type # "TokenEOF"

\* C12 as stated: when the kind of a non-bypassed new token does not occur in
\* the remainder of the old stream, the resync loop runs the old stream to
\* exhaustion, and the comments it collects on the way reach the output only
\* through the final flush: the resync loop writes none of them and the emit
\* step leaves the comment buffer as it is.
C12_DesyncFinalFlushOnly ==
    /\ [][(pc = "resync" /\ KindAbsentFrom(oldCursor)) =>
            /\ \/ pc' = "resync" /\ KindAbsentFrom(oldCursor')
               \/ pc' = "flush" /\ oldToken'.Type = "TokenEOF"
            /\ result' = result]_vars
    /\ [][ExhaustedForToken => comment' = comment]_vars

\* C12 amended: the resync loop runs the old stream to exhaustion; the
\* comments it collected are written by the emit step of that same
\* iteration, indented to and right before that new token, and the comment
\* buffer stays empty from then on, so that the final flush adds nothing.
C12_DesyncFlushAtToken ==
    /\ [][(pc = "resync" /\ KindAbsentFrom(oldCursor)) =>
            \/ pc' = "resync" /\ KindAbsentFrom(oldCursor')
            \/ pc' = "flush" /\ oldToken'.Type = "TokenEOF"]_vars
    /\ [][(ExhaustedForToken /\ comment # <<>>) =>
            /\ comment' = <<>>
            /\ result' = result \o TrimRight(spaces, {SP})
                          \o IndentString(Repeat(SP, newToken.StartColumn), comment)
                          \o Repeat(SP, newToken.StartColumn)
                          \o extractTokenText(prettyCode, newToken)]_vars
    /\ []((pc = "loop" /\ oldToken.Type = "TokenEOF") => comment = <<>>)

\* the old stream is exhausted for a token of the rendering with comments
\* collected and more tokens of the rendering to come
C12_Witness ==
    /\ ExhaustedForToken
    /\ KindAbsentFrom(0)
    /\ comment # <<>>
    /\ newCursor + 1 < Len(newTokens)

\* the emit step is about to flush a non-empty comment buffer
FlushesComments == pc = "flush" /\ ~BothExhausted /\ comment # <<>>

\* C13: whenever the emit step flushes a non-empty comment buffer, the new
\* token it writes right after starts in the output at the column it has in
\* the rendered text.
C13_ColumnAlignment ==
    [][FlushesComments =>
        ColumnAt(result', Len(result') - Len(extractTokenText(prettyCode, newToken)))
            = newToken.StartColumn]_vars

\* The comment of the n-th line of an original carries the digit of n and
\* nothing else does, so the digits of a text tell its comments and their
\* order in the original.
DigitValue(c) ==
    CASE c = "1" -> 1 [] c = "2" -> 2 [] c = "3" -> 3 [] c = "4" -> 4
      [] c = "9" -> 9 [] OTHER -> 0

DigitsOf(text) == SelectSeq(text, LAMBDA c : DigitValue(c) > 0)

NonDecreasing(digits) ==
    \A i \in 1..(Len(digits) - 1) : DigitValue(digits[i]) <= DigitValue(digits[i + 1])

\* C14: for any pair of streams the comments stand in the output, and while
\* the loop runs in the output followed by the comments still buffered, in
\* the order they have in the original: no flush writes a later comment
\* before an earlier one.
C14_CommentOrder ==
    /\ NonDecreasing(DigitsOf(result))
    /\ ~Done => NonDecreasing(DigitsOf(result \o comment))

\* the loop ended on an original in which a trailing comment follows a
\* leading one, with three comments written
C14_Witness ==
    /\ Done
    /\ Rendered
    /\ \E i, j \in 1..Len(oldTokens) :
          /\ i < j
          /\ oldTokens[i].Type = "TokenLineComment"
          /\ ~IsTrailing(oldTokens[i])
          /\ TrailsCode(j)
    /\ Len(DigitsOf(result)) >= 3

\* The characters of code tokens; the comments of the model's originals are
\* made of other characters, so the code characters of an output are the
\* code tokens written to it, in the order written.
CodeChars == {"x", "(", ")", "{", "}", ":"}

CodeOf(text) == SelectSeq(text, LAMBDA c : c \in CodeChars)

\* the rendered text up to the end of the last token read from the new stream
RenderedSoFar ==
    IF newCursor = 0 THEN <<>>
    ELSE Slice(prettyCode, 0, newTokens[newCursor].EndOffset + 1)

\* C15: for any original, every non-whitespace token of the rendering is
\* written to the result once and in rendered order: at the head of each
\* iteration the code in the result is the code of the rendering read so
\* far (the lookahead after an open brace skips and repeats nothing), and
\* at the end it is the code of the whole rendering.
C15_CodeConservation ==
    /\ (pc = "loop" /\ newCursor <= Len(newTokens)) =>
            CodeOf(result) = CodeOf(RenderedSoFar)
    /\ (Done /\ Rendered) => CodeOf(result) = CodeOf(prettyCode)

\* the loop ended on a desynchronised pair with comments, after an open
\* brace's lookahead was reverted and another's collapsed
C15_Witness ==
    /\ Done
    /\ Rendered
    /\ ~Compatible
    /\ HasComments(oldTokens)
    /\ \E i \in 1..(Len(newTokens) - 1) :
          newTokens[i].Type = "TokenBraceOpen" /\ newTokens[i + 1].Type = "TokenSpace"
    /\ \E i \in 1..(Len(newTokens) - 1) :
          newTokens[i].Type = "TokenBraceOpen" /\ newTokens[i + 1].Type = "TokenBraceClose"

\* the characters of a text that are not whitespace and not code: those of
\* its comments
CommentOf(text) == SelectSeq(text, LAMBDA c : c \notin CodeChars \cup SpaceChars)

\* how often sub occurs in s
Occurrences(s, sub) ==
    Cardinality({i \in 0..(Len(s) - Len(sub)) : SubSeq(s, i + 1, i + Len(sub)) = sub})

\* C16: for any pair of streams, when the loop has ended the old stream is
\* read to its end-of-input and every comment of the original is in the
\* result once: the comments' characters are those of the original in the
\* same order, and each comment that stands on one line occurs verbatim
\* exactly once.
C16_CommentsNeverLost ==
    (Done /\ Rendered) =>
        /\ oldToken.Type = "TokenEOF"
        /\ oldCursor = Len(oldTokens)
        /\ CommentOf(result) = CommentOf(existingCode)
        /\ \A i \in 1..Len(oldTokens) :
              (IsCommentToken(oldTokens[i])
               /\ oldTokens[i].StartLine = oldTokens[i].EndLine) =>
                  Occurrences(result, CommentText(oldTokens[i])) = 1

\* the loop ended on a desynchronised pair whose original has a buffered
\* line comment, a block comment and a trailing comment
C16_Witness ==
    /\ Done
    /\ Rendered
    /\ ~Compatible
    /\ \E i \in 1..Len(oldTokens) : TrailsCode(i)
    /\ \E i \in 1..Len(oldTokens) : oldTokens[i].Type = "TokenBlockCommentContent"
    /\ \E i \in 1..Len(oldTokens) :
          oldTokens[i].Type = "TokenLineComment" /\ ~IsTrailing(oldTokens[i])

\* C17: in the output a line comment is followed by a line break, or by the
\* end of the output, before the next token of the rendering: no code
\* stands behind a line comment on its line.
C17_NoCodeSwallowed ==
    (Done /\ Compatible) =>
        \A i \in 1..Len(oldTokens) :
            oldTokens[i].Type = "TokenLineComment" =>
                LET text == CommentText(oldTokens[i])
                IN  \A k \in 0..(Len(result) - Len(text)) :
                        SubSeq(result, k + 1, k + Len(text)) = text =>
                            \A m \in (k + Len(text) + 1)..Len(result) :
                                result[m] \in CodeChars =>
                                    \E n \in (k + Len(text) + 1)..(m - 1) :
                                        result[n] = NL

\* the offset at which sub first occurs in s, -1 when it does not
IndexOf(s, sub) ==
    LET at == {i \in 0..(Len(s) - Len(sub)) : SubSeq(s, i + 1, i + Len(sub)) = sub}
    IN  IF at = {} THEN -1 ELSE CHOOSE i \in at : \A j \in at : i <= j

\* the old tokens i and j are leading line comments, j two lines below i
\* with a blank line between them
BlankSeparated(i, j) ==
    /\ oldTokens[i].Type = "TokenLineComment"
    /\ oldTokens[j].Type = "TokenLineComment"
    /\ ~IsTrailing(oldTokens[i])
    /\ ~IsTrailing(oldTokens[j])
    /\ oldTokens[j].StartLine = oldTokens[i].StartLine + 2
    /\ IsBlankLine(existingCodeLines[oldTokens[i].StartLine + 1])

\* the line breaks of the output between the end of comment i and the start
\* of comment j
BreaksBetween(i, j) ==
    LET from == IndexOf(result, CommentText(oldTokens[i]))
                + Len(CommentText(oldTokens[i]))
        to == IndexOf(result, CommentText(oldTokens[j]))
    IN  Cardinality({k \in (from + 1)..to : result[k] = NL})

\* C18: two consecutive leading line comments that one blank line separates
\* in the original have exactly one blank line between them in the output:
\* two line breaks from the end of the first to the start of the second.
C18_BlankNotMultiplied ==
    (Done /\ Compatible) =>
        \A i, j \in 1..Len(oldTokens) :
            BlankSeparated(i, j) =>
                /\ IndexOf(result, CommentText(oldTokens[i])) >= 0
                /\ IndexOf(result, CommentText(oldTokens[j])) >= 0
                /\ BreaksBetween(i, j) = 2

\* the current new token is the end-of-input of the rendering
NewAtEnd == newToken.Type = "TokenEOF"

\* C19: the emit step never runs while the new token is end-of-input: with
\* the new token at end-of-input the loop is in the resync loop, or past it
\* with the old stream at end-of-input as well, where only the final flush
\* can follow; the spacing buffer is not flushed and no token text is
\* extracted for the end-of-input token.
C19_NoEmitAtEnd ==
    /\ [](NewAtEnd =>
            /\ pc \in {"resync", "flush", "done"}
            /\ pc \in {"flush", "done"} => oldToken.Type = "TokenEOF")
    /\ [][NewAtEnd =>
            /\ pc' \in {"resync", "flush", "done"}
            /\ newToken' = newToken
            /\ spaces' = spaces
            /\ pc = "flush" => (pc' = "done" /\ result' = result \o comment)]_vars
    /\ [][(pc = "flush" /\ pc' = "loop") => ~NewAtEnd]_vars

\* the final flush is about to write comments gathered while the new token
\* was end-of-input, with spacing of the rendering still pending
C19_Witness ==
    /\ pc = "flush"
    /\ BothExhausted
    /\ comment # <<>>
    /\ result # <<>>
    /\ spaces # <<>>

====
